---- MODULE Spec2Model ----
(***************************************************************************)
(* A model of the uber_earnings ingestion core:                            *)
(*   - DataOperations (src/src/database/operations.py): the trip store,    *)
(*     the canceled-trip log, the scraping sessions and the metrics rows;  *)
(*   - ActivitiesScraper.load_all_trips (src/src/scraper/activires.py):    *)
(*     the paginated extraction loop.                                      *)
(*   - DatabaseEncryptor (src/src/database/encryption.py): the key file    *)
(*     and the field encryption;                                           *)
(*   - ActivitiesScraper.select_week and DataOperations.trip_exists under  *)
(*     the retry decorator.                                                *)
(* Spec is the store, driven by arbitrary sequences of DataOperations      *)
(* calls; SpecScraper is one call of load_all_trips against a page that    *)
(* the environment may change between any two steps; SpecCipher is a       *)
(* sequence of encryptor initialisations and field operations; SpecRetry   *)
(* is one retry-wrapped call of select_week or trip_exists.                *)
(***************************************************************************)
EXTENDS Integers, Sequences, FiniteSets, TLC

VARIABLES
    trips,        \* rows of the Trip table, in insertion order
    canceled,     \* rows of the CanceledTrip table, in insertion order
    sessions,     \* rows of the ScrapingSession table; the id is the index
    metrics,      \* rows of the DatabaseMetrics table, in insertion order
    savedOk,      \* history: the trip_ids for which save_trip returned True
    last,         \* the most recent DataOperations call: arguments and result
    pc,           \* load_all_trips: the position in the loop body
    attempt,      \* load_all_trips: the loop variable of range(max_attempts)
    consecutive_failures,  \* load_all_trips: the stagnation counter
    held,         \* load_all_trips: the local list `trips`
    extractions,  \* history: calls of _extract_trips_from_page so far
    clicks,       \* history: calls of button.click() so far
    raised,       \* load_all_trips: TRUE when an exception left the call
    keyFiles,     \* the file at each key path: none, or its content and mode
    generated,    \* history: calls of Fernet.generate_key() so far
    ciphers,      \* the DatabaseEncryptor instances constructed so far
    initResult,   \* how the most recent DatabaseEncryptor() ended
    box,          \* the most recent encrypt_field / decrypt_field call
    callOp,       \* the retry-wrapped function being called, or "none"
    tries,        \* invocations of the wrapped function in this call
    callPc,       \* the position inside the invocation, or how the call ended
    callRet,      \* the value the call returned, or the error that left it
    errors,       \* history: the error raised inside each failed invocation
    trip_id,      \* trip_exists: the argument
    target,       \* select_week: the month of target_date
    shown,        \* the month the calendar displays
    page,         \* which elements of the calendar the page has
    navIter,      \* _navigate_to_month: iterations of the loop begun
    navClicks,    \* history: previous/next clicks of this invocation
    cellClicked   \* history: TRUE once a day cell was clicked

storeVars == <<trips, canceled, sessions, metrics, savedOk, last>>
scraperVars == <<pc, attempt, consecutive_failures, held, extractions, clicks, raised>>
cipherVars == <<keyFiles, generated, ciphers, initResult, box>>
callVars == <<callOp, tries, callPc, callRet, errors, trip_id, target, shown,
              page, navIter, navClicks, cellClicked>>
nonStoreVars == <<scraperVars, cipherVars, callVars>>
nonScraperVars == <<storeVars, cipherVars, callVars>>
nonCipherVars == <<storeVars, scraperVars, callVars>>
nonCallVars == <<storeVars, scraperVars, cipherVars>>
vars == <<trips, canceled, sessions, metrics, savedOk, last,
          pc, attempt, consecutive_failures, held, extractions, clicks, raised,
          keyFiles, generated, ciphers, initResult, box,
          callOp, tries, callPc, callRet, errors, trip_id, target, shown,
          page, navIter, navClicks, cellClicked>>

(***************************************************************************)
(* Bounds of the model.                                                    *)
(***************************************************************************)
\* rows the four tables may hold together
MaxRows == 2
\* cards a page may expose at one extraction
MaxCards == 2

(***************************************************************************)
(* Values.                                                                 *)
(***************************************************************************)
\* Python's None, for string-valued and row-valued places
None == "None"
\* None in a place that otherwise holds a date
NoDate == 0

TripIds == {"T1", "T2"}
Dates == {1, 2}
Earnings == {10, 20}

\* the dicts passed to save_trip: any trip that is not canceled, and a
\* canceled trip of each trip_id
TripData ==
    {d \in [trip_id : TripIds, date : Dates, earnings : Earnings,
            is_canceled : BOOLEAN] :
        d.is_canceled => (d.date = 1 /\ d.earnings = 10)}

\* the dicts passed to save_canceled_trip
CanceledData == {d \in TripData : d.is_canceled /\ d.date = 1 /\ d.earnings = 10}

\* (trips_count, canceled_count, last_date, duration) of a completion
CompleteArgs ==
    { [trips_count |-> 0, canceled_count |-> 0, last_date |-> NoDate, duration |-> 0],
      [trips_count |-> 2, canceled_count |-> 1, last_date |-> 2, duration |-> 5] }

\* the error_message argument: absent, the empty string, a message
ErrorMessages == {None, "", "boom"}

RECURSIVE SumEarnings(_)
SumEarnings(rows) ==
    IF rows = <<>> THEN 0 ELSE Head(rows).earnings + SumEarnings(Tail(rows))

(***************************************************************************)
(* The storage session (DatabaseManager.get_session) is imported from      *)
(* .models, which is not among the sources.  It is modelled from the       *)
(* design: a scoped session that commits the work of the block or rolls    *)
(* all of it back when the block is left by an exception.                  *)
(***************************************************************************)
\* the table a block leaves behind: its work when it commits, else the old rows
get_session(before, after, fails) == IF fails THEN before ELSE after

\* a variant of FirstTrip that takes the first row whatever its trip_id
FirstTripOfAny(rows, id) == IF rows = <<>> THEN 0 ELSE 1

\* session.query(Trip).filter(Trip.trip_id == id).first(): index of the row, 0 if none
FirstTrip(rows, id) ==
    IF \E i \in DOMAIN rows : rows[i].trip_id = id
    THEN CHOOSE i \in DOMAIN rows :
            /\ rows[i].trip_id = id
            /\ \A j \in DOMAIN rows : rows[j].trip_id = id => i <= j
    ELSE 0

\* Trip(**trip_data): a new row.  Time is not modelled: every timestamp is the
\* token "utcnow", here the one the column default gives updated_at
NewTrip(d) ==
    [trip_id |-> d.trip_id, date |-> d.date, earnings |-> d.earnings,
     is_canceled |-> d.is_canceled, updated_at |-> "utcnow"]

\* a variant of UpdatedTrip that leaves the stored earnings alone
UpdatedTripKeepsEarnings(row, d) ==
    [row EXCEPT !.trip_id = d.trip_id, !.date = d.date,
                !.is_canceled = d.is_canceled, !.updated_at = "utcnow"]

\* setattr(existing, key, value) for every key, then updated_at = utcnow()
UpdatedTrip(row, d) ==
    [row EXCEPT !.trip_id = d.trip_id, !.date = d.date, !.earnings = d.earnings,
                !.is_canceled = d.is_canceled, !.updated_at = "utcnow"]

\* a variant of UpsertRows that inserts without looking the trip_id up
UpsertRowsAlwaysInsert(rows, d) == Append(rows, NewTrip(d))

\* the rows after the body of save_trip's with-block
UpsertRows(rows, d) ==
    LET existing == FirstTrip(rows, d.trip_id) IN
    IF existing # 0
    THEN [rows EXCEPT ![existing] = UpdatedTrip(rows[existing], d)]
    ELSE Append(rows, NewTrip(d))

Rows == Len(trips) + Len(canceled) + Len(sessions) + Len(metrics)

(***************************************************************************)
(* The retry decorator of trip_exists: stop_after_attempt(3),              *)
(* retry_if_exception_type(SQLAlchemyError).  A call is described by the   *)
(* number of leading attempts that fail with an SQLAlchemyError and by     *)
(* what the first other attempt does: "ok", or "fatal" (an exception of    *)
(* another type).                                                          *)
(***************************************************************************)
stop_after_attempt == 3

\* the attempts made: one more than the transient failures, at most three
Attempts(transient) ==
    IF transient < stop_after_attempt THEN transient + 1 ELSE stop_after_attempt

\* whether the call returns a value: an attempt was reached that succeeds
Returns(transient, then) == transient < stop_after_attempt /\ then = "ok"

(***************************************************************************)
(* DataOperations.                                                         *)
(***************************************************************************)
\* a variant of trip_exists that also finds the id among the canceled trips
trip_exists_any_table(id, transient, then) ==
    /\ last' = [op |-> "trip_exists", trip_id |-> id,
                attempts |-> Attempts(transient),
                ret |-> IF Returns(transient, then)
                        THEN (IF FirstTrip(trips \o canceled, id) # 0
                              THEN "True" ELSE "False")
                        ELSE "raised"]
    /\ UNCHANGED <<trips, canceled, sessions, metrics, savedOk>>

\* trip_exists(trip_id)
trip_exists(id, transient, then) ==
    /\ last' = [op |-> "trip_exists", trip_id |-> id,
                attempts |-> Attempts(transient),
                ret |-> IF Returns(transient, then)
                        THEN (IF FirstTrip(trips, id) # 0 THEN "True" ELSE "False")
                        ELSE "raised"]
    /\ UNCHANGED <<trips, canceled, sessions, metrics, savedOk>>

\* a variant of save_trip whose except clause reports success
save_trip_reports_success(d, fails) ==
    /\ fails \/ FirstTrip(trips, d.trip_id) # 0 \/ Rows < MaxRows
    /\ trips' = get_session(trips, UpsertRows(trips, d), fails)
    /\ savedOk' = IF fails THEN savedOk ELSE savedOk \cup {d.trip_id}
    /\ last' = [op |-> "save_trip", data |-> d,
                existing |-> IF FirstTrip(trips, d.trip_id) # 0
                             THEN trips[FirstTrip(trips, d.trip_id)].earnings
                             ELSE 0,
                ret |-> "True"]
    /\ UNCHANGED <<canceled, sessions, metrics>>

\* save_trip(trip_data); fails: a storage exception inside the try block
save_trip(d, fails) ==
    /\ fails \/ FirstTrip(trips, d.trip_id) # 0 \/ Rows < MaxRows
    /\ trips' = get_session(trips, UpsertRows(trips, d), fails)
    /\ savedOk' = IF fails THEN savedOk ELSE savedOk \cup {d.trip_id}
    /\ last' = [op |-> "save_trip", data |-> d,
                existing |-> IF FirstTrip(trips, d.trip_id) # 0
                             THEN trips[FirstTrip(trips, d.trip_id)].earnings
                             ELSE 0,
                ret |-> IF fails THEN "False" ELSE "True"]
    /\ UNCHANGED <<canceled, sessions, metrics>>

\* a variant of save_canceled_trip that updates the record of a known trip_id
save_canceled_trip_upsert(d, fails) ==
    /\ fails \/ Rows < MaxRows
    /\ canceled' = get_session(canceled, UpsertRows(canceled, d), fails)
    /\ last' = [op |-> "save_canceled_trip", data |-> d,
                ret |-> IF fails THEN "False" ELSE "True"]
    /\ UNCHANGED <<trips, sessions, metrics, savedOk>>

\* save_canceled_trip(canceled_data)
save_canceled_trip(d, fails) ==
    /\ fails \/ Rows < MaxRows
    /\ canceled' = get_session(canceled, Append(canceled, NewTrip(d)), fails)
    /\ last' = [op |-> "save_canceled_trip", data |-> d,
                ret |-> IF fails THEN "False" ELSE "True"]
    /\ UNCHANGED <<trips, sessions, metrics, savedOk>>

\* start_scraping_session(): the new row's id is returned
start_scraping_session ==
    /\ Rows < MaxRows
    /\ sessions' = Append(sessions,
            [status |-> "started", trips_scraped |-> 0, canceled_trips_scraped |-> 0,
             last_trip_date |-> NoDate, duration_seconds |-> 0,
             error_message |-> None])
    /\ last' = [op |-> "start_scraping_session", ret |-> Len(sessions) + 1]
    /\ UNCHANGED <<trips, canceled, metrics, savedOk>>

\* a variant of CompletedSession that does not record the duration
CompletedSessionNoDuration(row, a, error_message) ==
    [row EXCEPT !.status = IF error_message \in {None, ""} THEN "completed" ELSE "failed",
                !.trips_scraped = a.trips_count,
                !.canceled_trips_scraped = a.canceled_count,
                !.last_trip_date = a.last_date,
                !.error_message = error_message]

\* the row complete_scraping_session leaves for a session that exists
CompletedSession(row, a, error_message) ==
    [row EXCEPT !.status = IF error_message \in {None, ""} THEN "completed" ELSE "failed",
                !.trips_scraped = a.trips_count,
                !.canceled_trips_scraped = a.canceled_count,
                !.last_trip_date = a.last_date,
                !.duration_seconds = a.duration,
                !.error_message = error_message]

\* a variant of complete_scraping_session that creates the row it does not find
complete_or_create_session(session_id, a, error_message) ==
    /\ sessions' = IF session_id \in DOMAIN sessions
                   THEN [sessions EXCEPT ![session_id] =
                            CompletedSession(sessions[session_id], a, error_message)]
                   ELSE Append(sessions,
                            [status |-> "completed", trips_scraped |-> a.trips_count,
                             canceled_trips_scraped |-> a.canceled_count,
                             last_trip_date |-> a.last_date,
                             duration_seconds |-> a.duration,
                             error_message |-> error_message])
    /\ last' = [op |-> "complete_scraping_session", session_id |-> session_id,
                args |-> a, error_message |-> error_message,
                found |-> session_id \in DOMAIN sessions, ret |-> None]
    /\ UNCHANGED <<trips, canceled, metrics, savedOk>>

\* complete_scraping_session(session_id, trips_count, canceled_count, last_date,
\*                           duration, error_message)
complete_scraping_session(session_id, a, error_message) ==
    /\ sessions' = IF session_id \in DOMAIN sessions
                   THEN [sessions EXCEPT ![session_id] =
                            CompletedSession(sessions[session_id], a, error_message)]
                   ELSE sessions
    /\ last' = [op |-> "complete_scraping_session", session_id |-> session_id,
                args |-> a, error_message |-> error_message,
                found |-> session_id \in DOMAIN sessions, ret |-> None]
    /\ UNCHANGED <<trips, canceled, metrics, savedOk>>

NotCanceled(row) == ~row.is_canceled

\* update_database_metrics()
update_database_metrics ==
    LET counted == SelectSeq(trips, NotCanceled)
        total == SumEarnings(counted)
    IN  /\ Rows < MaxRows
        /\ metrics' = Append(metrics,
                [metric_date |-> "utcnow",
                 total_trips |-> Len(trips),
                 total_earnings |-> total,
                 avg_earnings_per_trip |->
                    IF counted = <<>> THEN 0 ELSE total \div Len(counted),
                 success_rate |-> 1])
        /\ last' = [op |-> "update_database_metrics", ret |-> None]
        /\ UNCHANGED <<trips, canceled, sessions, savedOk>>

\* get_last_scraped_date(): the date of the first Trip row in descending
\* order of date, None for an empty table
get_last_scraped_date ==
    /\ last' = [op |-> "get_last_scraped_date",
                ret |-> IF trips = <<>> THEN NoDate
                        ELSE CHOOSE d \in Dates :
                                /\ \E i \in DOMAIN trips : trips[i].date = d
                                /\ \A i \in DOMAIN trips : trips[i].date <= d]
    /\ UNCHANGED <<trips, canceled, sessions, metrics, savedOk>>

\* a variant of InPeriod with an exclusive end date that counts canceled trips
InPeriodExclusive(row, start_date, end_date) ==
    row.date >= start_date /\ row.date < end_date

\* the filter of get_earnings_summary (lines 114-118)
InPeriod(row, start_date, end_date) ==
    row.date >= start_date /\ row.date <= end_date /\ row.is_canceled = FALSE

\* get_earnings_summary(start_date, end_date): count, sum and avg of the
\* filtered Trip rows; `or` replaces a count of 0 and the NULL sum and avg of
\* an empty selection by 0 and 0.0
get_earnings_summary(start_date, end_date) ==
    LET rows == SelectSeq(trips, LAMBDA row : InPeriod(row, start_date, end_date))
        total == SumEarnings(rows)
    IN  /\ last' = [op |-> "get_earnings_summary",
                    start_date |-> start_date, end_date |-> end_date,
                    ret |-> [total_trips |-> Len(rows),
                             total_earnings |-> total,
                             average_earnings |->
                                IF rows = <<>> THEN 0 ELSE total \div Len(rows)]]
        /\ UNCHANGED <<trips, canceled, sessions, metrics, savedOk>>

(***************************************************************************)
(* DatabaseEncryptor (src/src/database/encryption.py).  Fernet and base64  *)
(* are libraries: a Fernet token is modelled by the key that made it, the  *)
(* bytes it protects and whether its bytes are still the ones produced; a  *)
(* base64 text by the token it encodes and the characters outside the      *)
(* alphabet it carries.                                                    *)
(***************************************************************************)
\* keys Fernet.generate_key() may hand out in one behaviour
MaxKeys == 2
\* DatabaseEncryptor instances constructed in one behaviour
MaxEncryptors == 2

\* the default key path and another one
KeyPaths == {".encryption_key", "other_key"}

\* the content of a key file that is not a Fernet key (empty or truncated)
NoKey == 0

\* no file at the path; a file is <<[content, readable]>>
NoFile == <<>>

\* the values handed to encrypt_field: the empty string, a non-ASCII string,
\* an integer, and a datetime (a scalar json cannot represent)
Scalars ==
    { [type |-> "str", text |-> ""],
      [type |-> "str", text |-> "caf\\u00e9"],
      [type |-> "int", text |-> "7"],
      [type |-> "datetime", text |-> "2024-01-05 00:00:00"] }

\* json.dumps({'value': value}, default=str): a string and a number are
\* written as such, any other object as the string str(value)
json_dumps(value) ==
    IF value.type = "int"
    THEN [json |-> "number", text |-> value.text]
    ELSE [json |-> "string", text |-> value.text]

\* json.loads(json_data)['value']
json_loads(json_data) ==
    IF json_data.json = "number"
    THEN [type |-> "int", text |-> json_data.text]
    ELSE [type |-> "str", text |-> json_data.text]

\* the results of a call: a value, or the exception that left it
Value(v) == [kind |-> "value", value |-> v]
Raised(e) == [kind |-> "raised", value |-> [type |-> "exception", text |-> e]]

\* Fernet(key).encrypt(data)
FernetEncrypt(key, data) == [key |-> key, data |-> data, intact |-> TRUE]

\* Fernet(key).decrypt(token) succeeds for an unchanged token of that key
FernetAccepts(key, token) == token.intact /\ token.key = key

\* base64.urlsafe_b64encode(encrypted).decode()
urlsafe_b64encode(token) == [token |-> token, junk |-> 0]

\* base64.urlsafe_b64decode(text): without validate=True the characters
\* outside the alphabet are discarded before decoding
urlsafe_b64decode(text) == text.token

\* encrypt_field(value) of an instance holding the key
encrypt_field(key, value) == urlsafe_b64encode(FernetEncrypt(key, json_dumps(value)))

\* decrypt_field(encrypted_value) of an instance holding the key
decrypt_field(key, encrypted_value) ==
    LET encrypted == urlsafe_b64decode(encrypted_value) IN
    IF FernetAccepts(key, encrypted)
    THEN Value(json_loads(encrypted.data))
    ELSE Raised("InvalidToken")

\* what a modification does to a ciphertext text: "flip" changes a character
\* of the alphabet (other token bytes), "junk" inserts a character outside it
Modified(text, how) ==
    IF how = "flip"
    THEN [text EXCEPT !.token.intact = FALSE]
    ELSE [text EXCEPT !.junk = 1]

\* _generate_new_key(); outcome is "ok", or the call that raises: "open"
\* (write_bytes before the file is created), "write" (write_bytes after it
\* was created), "chmod"
_generate_new_key(p, outcome) ==
    LET key == generated + 1 IN
    /\ generated < MaxKeys
    /\ generated' = key
    /\ keyFiles' = [keyFiles EXCEPT ![p] =
            CASE outcome = "open" -> NoFile
              [] outcome = "write" -> <<[content |-> NoKey, readable |-> TRUE]>>
              [] OTHER -> <<[content |-> key, readable |-> TRUE]>>]
    /\ IF outcome = "ok"
       THEN /\ Len(ciphers) < MaxEncryptors
            /\ ciphers' = Append(ciphers, [key_path |-> p, key |-> key])
            /\ initResult' = "generated"
       ELSE /\ ciphers' = ciphers
            /\ initResult' = "raised"

\* a variant of _load_existing_key that replaces a key it cannot load
_load_or_replace_key(p) ==
    LET file == keyFiles[p][1] IN
    IF file.readable /\ file.content # NoKey
    THEN /\ Len(ciphers) < MaxEncryptors
         /\ ciphers' = Append(ciphers, [key_path |-> p, key |-> file.content])
         /\ initResult' = "loaded"
         /\ UNCHANGED <<keyFiles, generated>>
    ELSE _generate_new_key(p, "ok")

\* _load_existing_key(): read_bytes raises on an unreadable file, Fernet(key)
\* on a content that is no key; the except clause re-raises
_load_existing_key(p) ==
    LET file == keyFiles[p][1] IN
    /\ IF file.readable /\ file.content # NoKey
       THEN /\ Len(ciphers) < MaxEncryptors
            /\ ciphers' = Append(ciphers, [key_path |-> p, key |-> file.content])
            /\ initResult' = "loaded"
       ELSE /\ ciphers' = ciphers
            /\ initResult' = "raised"
    /\ UNCHANGED <<keyFiles, generated>>

\* DatabaseEncryptor(key_path): __init__ and _initialize_encryption
_initialize_encryption(p, outcome) ==
    /\ IF keyFiles[p] = NoFile
       THEN _generate_new_key(p, outcome)
       ELSE outcome = "ok" /\ _load_existing_key(p)
    /\ UNCHANGED box

\* the owner changes the permissions of a key file
Chmod(p, readable) ==
    /\ keyFiles[p] # NoFile
    /\ keyFiles' = [keyFiles EXCEPT ![p] = <<[keyFiles[p][1] EXCEPT !.readable = readable]>>]
    /\ UNCHANGED <<generated, ciphers, initResult, box>>

\* instance i encrypts a value
EncryptField(i, value) ==
    /\ box' = [op |-> "encrypt_field", value |-> value, key |-> ciphers[i].key,
               text |-> encrypt_field(ciphers[i].key, value),
               modified |-> FALSE, by |-> ciphers[i].key, ret |-> Value(value)]
    /\ UNCHANGED <<keyFiles, generated, ciphers, initResult>>

\* the stored ciphertext is modified before it is read back
Tamper(how) ==
    /\ box.op = "encrypt_field"
    /\ box' = [box EXCEPT !.text = Modified(box.text, how), !.modified = TRUE]
    /\ UNCHANGED <<keyFiles, generated, ciphers, initResult>>

\* instance j decrypts the ciphertext
DecryptField(j) ==
    /\ box.op = "encrypt_field"
    /\ box' = [box EXCEPT !.op = "decrypt_field", !.by = ciphers[j].key,
                          !.ret = decrypt_field(ciphers[j].key, box.text)]
    /\ UNCHANGED <<keyFiles, generated, ciphers, initResult>>

InitCipher ==
    /\ keyFiles = [p \in KeyPaths |-> NoFile]
    /\ generated = 0
    /\ ciphers = <<>>
    /\ initResult = "none"
    /\ box = [op |-> "none", value |-> [type |-> "str", text |-> ""], key |-> NoKey,
              text |-> urlsafe_b64encode(FernetEncrypt(NoKey, json_dumps([type |-> "str", text |-> ""]))),
              modified |-> FALSE, by |-> NoKey,
              ret |-> Value([type |-> "str", text |-> ""])]

(***************************************************************************)
(* The retry decorator (tenacity) around select_week and trip_exists, one  *)
(* action per step of an invocation; select_week includes                  *)
(* _navigate_to_month (src/src/scraper/activires.py:17-90).                *)
(***************************************************************************)
\* months a target may lie beyond the reach of max_navigation clicks
MaxBeyond == 1

\* line 66
max_navigation == 12

\* the month the calendar displays when it opens: June 2024, counted in
\* months (year * 12 + month - 1)
StartMonth == 24293

MonthNames ==
    << "January", "February", "March", "April", "May", "June", "July",
       "August", "September", "October", "November", "December" >>

\* strftime("%B %Y") of a date in month m; the calendar label has this form
strftime(m) == [month |-> MonthNames[(m % 12) + 1], year |-> m \div 12]

\* datetime.strptime(text, "%B %Y"), as a count of months
strptime(text) ==
    text.year * 12 + (CHOOSE i \in 1..12 : MonthNames[i] = text.month) - 1

\* current_month.inner_text(): the label of the displayed month
inner_text == strftime(shown)

\* the targets of a call, within and beyond the reach of the loop
Targets ==
    (StartMonth - max_navigation - MaxBeyond) ..
        (StartMonth + max_navigation + MaxBeyond)

\* the calendar elements a page may have: the month label, the two
\* navigation buttons, the day cell of the target date
PageConfigs == [label : BOOLEAN, prev : BOOLEAN, next : BOOLEAN, cell : BOOLEAN]

\* retry_if_exception_type of each decorator
TransientKinds(op) ==
    IF op = "select_week" THEN {"UberScrapingError", "TimeoutError"}
    ELSE {"SQLAlchemyError"}

\* what the decorator does with an error that left the function: call it
\* again, give up with RetryError, or let the error through
RetryAction(op, error) ==
    IF error \in TransientKinds(op)
    THEN IF tries < stop_after_attempt THEN "retry" ELSE "RetryError"
    ELSE "reraise"

\* an invocation ended with the error: the decorator acts on it
Fail(error, first) ==
    LET action == RetryAction(callOp, error) IN
    /\ tries' = IF action = "retry" THEN tries + 1 ELSE tries
    /\ callPc' = IF action = "retry" THEN first ELSE "raised"
    /\ callRet' = CASE action = "retry" -> callRet
                    [] action = "RetryError" -> "RetryError"
                    [] OTHER -> error

\* the invocation returned the value, which the decorator hands on
Return(value) == tries' = tries /\ callPc' = "returned" /\ callRet' = value

\* a call of select_week(target_date) begins
CallSelectWeek(t, pg) ==
    /\ callOp = "none"
    /\ callOp' = "select_week" /\ tries' = 1 /\ callPc' = "picker"
    /\ target' = t /\ page' = pg
    /\ UNCHANGED <<callRet, errors, trip_id, shown, navIter, navClicks,
                   cellClicked>>

\* lines 28-34: wait for the date picker and open the calendar; outcome is
\* "found" or the error raised on the way, which the except clause of line
\* 51 turns into UberScrapingError
OpenPicker(outcome) ==
    /\ callOp = "select_week" /\ callPc = "picker"
    /\ navIter' = 0 /\ navClicks' = 0
    /\ IF outcome = "found"
       THEN tries' = tries /\ callPc' = "label" /\ callRet' = callRet
                /\ errors' = errors
       ELSE Fail("UberScrapingError", "picker") /\ errors' = Append(errors, outcome)
    /\ UNCHANGED <<callOp, trip_id, target, shown, page, cellClicked>>

\* lines 59-66: find the month label; without it _navigate_to_month returns
\* False, and so does select_week (lines 37-38)
FindLabel ==
    /\ callOp = "select_week" /\ callPc = "label"
    /\ IF page.label
       THEN tries' = tries /\ callPc' = "loop" /\ callRet' = callRet
       ELSE Return("False")
    /\ UNCHANGED <<callOp, errors, trip_id, target, shown, page, navIter,
                   navClicks, cellClicked>>

\* a variant of NavButton that always goes forward
NavButtonNext(target_date, current_date) == "next"

\* lines 75-78: the button for the direction of the target
NavButton(target_date, current_date) ==
    IF target_date < current_date THEN "prev" ELSE "next"

\* a variant of LoopEnds for a loop without the limit
LoopNeverEnds(iterations) == FALSE

\* line 68: range(max_navigation) is exhausted
LoopEnds(iterations) == iterations >= max_navigation

\* line 86 and lines 37-38: the result of _navigate_to_month after the
\* loop, and what select_week does with it
AfterLoop ==
    IF strftime(target) = inner_text
    THEN tries' = tries /\ callPc' = "cell" /\ callRet' = callRet
    ELSE Return("False")

\* lines 68-84: one iteration of the loop, or its end
_navigate_to_month ==
    /\ callOp = "select_week" /\ callPc = "loop"
    /\ IF LoopEnds(navIter)
       THEN AfterLoop /\ UNCHANGED <<shown, navIter, navClicks>>
       ELSE IF strftime(target) = inner_text
       THEN /\ tries' = tries /\ callPc' = "cell" /\ callRet' = callRet
            /\ UNCHANGED <<shown, navIter, navClicks>>
       ELSE LET nav_btn == NavButton(target, strptime(inner_text)) IN
            IF page[nav_btn]
            THEN /\ shown' = IF nav_btn = "prev" THEN shown - 1 ELSE shown + 1
                 /\ navIter' = navIter + 1
                 /\ navClicks' = navClicks + 1
                 /\ UNCHANGED <<tries, callPc, callRet>>
            ELSE AfterLoop /\ UNCHANGED <<shown, navIter, navClicks>>
    /\ UNCHANGED <<callOp, errors, trip_id, target, page, cellClicked>>

\* lines 41-49: click the day cell of the target date if the page has it
SelectCell ==
    /\ callOp = "select_week" /\ callPc = "cell"
    /\ IF page.cell
       THEN cellClicked' = TRUE /\ Return("True")
       ELSE cellClicked' = cellClicked /\ Return("False")
    /\ UNCHANGED <<callOp, errors, trip_id, target, shown, page, navIter,
                   navClicks>>

\* a call of trip_exists(trip_id) begins
CallTripExists(id) ==
    /\ callOp = "none"
    /\ callOp' = "trip_exists" /\ tries' = 1 /\ callPc' = "query"
    /\ trip_id' = id
    /\ UNCHANGED <<callRet, errors, target, shown, page, navIter,
                   navClicks, cellClicked>>

\* operations.py:21-24: the query of one invocation; outcome is "ok" or the
\* error it raises
QueryTrip(outcome) ==
    /\ callOp = "trip_exists" /\ callPc = "query"
    /\ IF outcome = "ok"
       THEN /\ Return(IF FirstTrip(trips, trip_id) # 0 THEN "True" ELSE "False")
            /\ errors' = errors
       ELSE Fail(outcome, "query") /\ errors' = Append(errors, outcome)
    /\ UNCHANGED <<callOp, trip_id, target, shown, page, navIter,
                   navClicks, cellClicked>>

\* the DataOperations methods of the store other than trip_exists
StoreOps ==
    {"save_trip", "save_canceled_trip", "get_last_scraped_date",
     "get_earnings_summary", "update_database_metrics"}

\* the methods that carry the @retry decorator (operations.py:15-19, 26-30)
Decorated(op) == op \in {"trip_exists", "save_trip"}

\* the methods whose body is inside try / except Exception: return False
\* (operations.py:34-55, 60-69)
CatchesException(op) == op \in {"save_trip", "save_canceled_trip"}

\* a call of one of the other store methods begins
CallStoreOp(op) ==
    /\ callOp = "none"
    /\ callOp' = op /\ tries' = 1 /\ callPc' = "body"
    /\ UNCHANGED <<callRet, errors, trip_id, target, shown, page, navIter,
                   navClicks, cellClicked>>

\* one invocation of the method's body; outcome is "ok" or the error the
\* storage session raises in it
StoreAttempt(outcome) ==
    /\ callOp \in StoreOps /\ callPc = "body"
    /\ IF outcome = "ok"
       THEN /\ Return(IF CatchesException(callOp) THEN "True" ELSE "value")
            /\ errors' = errors
       ELSE /\ errors' = Append(errors, outcome)
            /\ IF CatchesException(callOp) THEN Return("False")
               ELSE IF Decorated(callOp) THEN Fail(outcome, "body")
               ELSE tries' = tries /\ callPc' = "raised" /\ callRet' = outcome
    /\ UNCHANGED <<callOp, trip_id, target, shown, page, navIter,
                   navClicks, cellClicked>>

InitCall ==
    /\ callOp = "none"
    /\ tries = 0
    /\ callPc = "idle"
    /\ callRet = None
    /\ errors = <<>>
    /\ trip_id = None
    /\ target = StartMonth
    /\ shown = StartMonth
    /\ page = [label |-> TRUE, prev |-> TRUE, next |-> TRUE, cell |-> TRUE]
    /\ navIter = 0
    /\ navClicks = 0
    /\ cellClicked = FALSE

InitStore ==
    /\ trips = <<>>
    /\ canceled = <<>>
    /\ sessions = <<>>
    /\ metrics = <<>>
    /\ savedOk = {}
    /\ last = [op |-> "none", ret |-> None]

InitScraper ==
    /\ pc = "extract"
    /\ attempt = 0
    /\ consecutive_failures = 0
    /\ held = <<>>
    /\ extractions = 0
    /\ clicks = 0
    /\ raised = FALSE

Init == InitStore /\ InitScraper /\ InitCipher /\ InitCall

TripExists ==
    \E id \in TripIds, transient \in 0..stop_after_attempt, then \in {"ok", "fatal"} :
        trip_exists(id, transient, then) /\ UNCHANGED nonStoreVars

SaveTrip ==
    \E d \in TripData, fails \in BOOLEAN :
        save_trip(d, fails) /\ UNCHANGED nonStoreVars

SaveCanceledTrip ==
    \E d \in CanceledData, fails \in BOOLEAN :
        save_canceled_trip(d, fails) /\ UNCHANGED nonStoreVars

StartScrapingSession == start_scraping_session /\ UNCHANGED nonStoreVars

CompleteScrapingSession ==
    \E session_id \in 1..(Len(sessions) + 1), a \in CompleteArgs, e \in ErrorMessages :
        complete_scraping_session(session_id, a, e) /\ UNCHANGED nonStoreVars

UpdateDatabaseMetrics == update_database_metrics /\ UNCHANGED nonStoreVars

GetLastScrapedDate == get_last_scraped_date /\ UNCHANGED nonStoreVars

GetEarningsSummary ==
    \E start_date \in Dates, end_date \in Dates :
        get_earnings_summary(start_date, end_date) /\ UNCHANGED nonStoreVars

Next ==
    \/ TripExists
    \/ SaveTrip
    \/ SaveCanceledTrip
    \/ StartScrapingSession
    \/ CompleteScrapingSession
    \/ UpdateDatabaseMetrics
    \/ GetEarningsSummary
    \/ GetLastScrapedDate

Spec == Init /\ [][Next]_vars

(***************************************************************************)
(* ActivitiesScraper: the page.  A card is what the page exposes for one   *)
(* trip element: its three candidate identifier attributes (None when the  *)
(* attribute is absent), the texts of its date and earnings children, and  *)
(* whether reading it raises: "never", or at a read that follows the       *)
(* resolution of the identifier ("details").                               *)
(***************************************************************************)
Cards ==
    { [data_trip_id |-> "a", data_id |-> None, id |-> None,
       date_text |-> "Jan 5", earnings_text |-> "$10", raises |-> "never"],
      [data_trip_id |-> None, data_id |-> "", id |-> "b",
       date_text |-> "", earnings_text |-> "", raises |-> "never"],
      [data_trip_id |-> "", data_id |-> None, id |-> None,
       date_text |-> "Jan 5", earnings_text |-> "$10", raises |-> "never"],
      [data_trip_id |-> "a", data_id |-> None, id |-> None,
       date_text |-> "Jan 5", earnings_text |-> "$10", raises |-> "details"] }

\* what query_selector_all can return: the cards of the page, in page order
Pages == UNION {[1..n -> Cards] : n \in 0..MaxCards}

\* Python's truth value of an optional string
Truthy(x) == x \notin {None, ""}

\* Python's `x or y`
Or(x, y) == IF Truthy(x) THEN x ELSE y

(***************************************************************************)
(* _parse_date and _parse_currency are called by _parse_trip_card and are  *)
(* defined by none of the sources.  They are modelled from the design:     *)
(* neither raises; a text outside the date grammar gives a null date, a    *)
(* text without an amount gives zero.                                      *)
(***************************************************************************)
_parse_date(text) == IF text = "Jan 5" THEN 1 ELSE NoDate

_parse_currency(text) == IF text = "$10" THEN 10 ELSE 0

\* a variant of ResolveTripId that reads data-trip-id alone
ResolveTripIdFirstOnly(card) == card.data_trip_id

\* the identifier chain of _parse_trip_card
ResolveTripId(card) == Or(Or(card.data_trip_id, card.data_id), card.id)

\* an Optional[Dict]: the empty sequence for None, else the dict alone
NoDict == <<>>

\* _parse_trip_card(card): the record, or None (no identifier, or an exception)
_parse_trip_card(card) ==
    IF ~Truthy(ResolveTripId(card)) THEN NoDict
    ELSE IF card.raises = "details" THEN NoDict
    ELSE << [trip_id |-> ResolveTripId(card),
             date |-> _parse_date(card.date_text),
             earnings |-> _parse_currency(card.earnings_text)] >>

\* a variant of ExtractCards that gives up at the first card without a record
RECURSIVE ExtractCardsUntilFailure(_)
ExtractCardsUntilFailure(cards) ==
    IF cards = <<>> THEN <<>>
    ELSE LET trip_data == _parse_trip_card(Head(cards)) IN
         IF trip_data # NoDict /\ Truthy(trip_data[1].trip_id)
         THEN trip_data \o ExtractCardsUntilFailure(Tail(cards))
         ELSE <<>>

\* the loop of _extract_trips_from_page over the cards found
RECURSIVE ExtractCards(_)
ExtractCards(cards) ==
    IF cards = <<>> THEN <<>>
    ELSE LET trip_data == _parse_trip_card(Head(cards)) IN
         IF trip_data # NoDict /\ Truthy(trip_data[1].trip_id)
         THEN trip_data \o ExtractCards(Tail(cards))
         ELSE ExtractCards(Tail(cards))

\* _extract_trips_from_page(): query_fails is query_selector_all raising
_extract_trips_from_page(cards, query_fails) ==
    IF query_fails THEN <<>> ELSE ExtractCards(cards)

(***************************************************************************)
(* ActivitiesScraper.load_all_trips, one action per step of the loop body. *)
(***************************************************************************)
max_attempts == 50

\* the stagnation threshold of lines 112 and 128
max_failures == 3

\* a variant of Continue for a loop without the safety limit
ContinueUnbounded == attempt' = attempt + 1 /\ pc' = "extract"

\* the loop goes to its next iteration, or ends when range(max_attempts) does
Continue ==
    IF attempt + 1 < max_attempts
    THEN attempt' = attempt + 1 /\ pc' = "extract"
    ELSE attempt' = attempt /\ pc' = "done"

\* the except clause of the loop body: count the failure, stop at the third
Handler ==
    /\ consecutive_failures' = consecutive_failures + 1
    /\ IF consecutive_failures + 1 >= max_failures
       THEN attempt' = attempt /\ pc' = "done"
       ELSE Continue

\* lines 102-107: extract, then compare with the held list
Extract(cards, query_fails) ==
    LET current_trips == _extract_trips_from_page(cards, query_fails) IN
    /\ pc = "extract"
    /\ extractions' = extractions + 1
    /\ IF Len(current_trips) = Len(held) /\ attempt > 0
       THEN consecutive_failures' = consecutive_failures + 1 /\ held' = held
       ELSE consecutive_failures' = 0 /\ held' = current_trips
    /\ pc' = "query"
    /\ UNCHANGED <<attempt, clicks, raised>>

\* a variant of QueryLoadMore that does not look at the counter
QueryLoadMoreIgnoresCounter(button) ==
    /\ pc = "query"
    /\ IF button = "raises" THEN Handler
       ELSE /\ pc' = IF button = "absent" THEN "done" ELSE "click"
            /\ UNCHANGED <<attempt, consecutive_failures>>
    /\ UNCHANGED <<held, extractions, clicks, raised>>

\* lines 110-114: look for the button; button is "present", "absent" or
\* "raises" (query_selector raising, which the except clause handles)
QueryLoadMore(button) ==
    /\ pc = "query"
    /\ IF button = "raises" THEN Handler
       ELSE /\ pc' = IF button = "absent" \/ consecutive_failures >= max_failures
                     THEN "done" ELSE "click"
            /\ UNCHANGED <<attempt, consecutive_failures>>
    /\ UNCHANGED <<held, extractions, clicks, raised>>

\* _safe_click_load_more(button): whether it returns True.  outcome is "ok",
\* or the call that raises: "scroll" (evaluate), "click", "wait"
_safe_click_load_more(outcome) == outcome = "ok"

\* lines 117-120
ClickLoadMore(outcome) ==
    /\ pc = "click"
    /\ clicks' = IF outcome = "scroll" THEN clicks ELSE clicks + 1
    /\ consecutive_failures' = IF _safe_click_load_more(outcome)
                               THEN consecutive_failures
                               ELSE consecutive_failures + 1
    /\ pc' = "delay"
    /\ UNCHANGED <<attempt, held, extractions, raised>>

\* whether the module binds the name: activires.py imports logger, date_utils,
\* monitoring, DataOperations and the exceptions (lines 1-10), and not config
Imported(name) ==
    name \in {"Page", "datetime", "time", "List", "Dict", "Optional", "retry",
              "stop_after_attempt", "wait_exponential", "retry_if_exception_type",
              "logger", "get_uber_week_range", "is_current_week",
              "track_execution_time", "DataOperations", "UberScrapingError",
              "UberLoginRequired", "UberRateLimit"}

\* line 123: time.sleep(config.scraping.request_delay); reading a name the
\* module does not bind raises NameError, which the except clause handles
RequestDelay ==
    /\ pc = "delay"
    /\ IF Imported("config")
       THEN Continue /\ UNCHANGED consecutive_failures
       ELSE Handler
    /\ UNCHANGED <<held, extractions, clicks, raised>>

ExtractStep ==
    \/ \E cards \in Pages : Extract(cards, FALSE) /\ UNCHANGED nonScraperVars
    \/ Extract(<<>>, TRUE) /\ UNCHANGED nonScraperVars

QueryLoadMoreStep ==
    \E button \in {"present", "absent", "raises"} :
        QueryLoadMore(button) /\ UNCHANGED nonScraperVars

ClickLoadMoreStep ==
    \E outcome \in {"ok", "scroll", "click", "wait"} :
        ClickLoadMore(outcome) /\ UNCHANGED nonScraperVars

RequestDelayStep == RequestDelay /\ UNCHANGED nonScraperVars

NextScraper ==
    \/ ExtractStep
    \/ QueryLoadMoreStep
    \/ ClickLoadMoreStep
    \/ RequestDelayStep

SpecScraper == Init /\ [][NextScraper]_vars

(***************************************************************************)
(* The encryptor: instances are constructed one after another on the key   *)
(* paths, and fields are encrypted, possibly modified, and decrypted.      *)
(***************************************************************************)
NewEncryptor ==
    \E p \in KeyPaths, outcome \in {"ok", "open", "write", "chmod"} :
        _initialize_encryption(p, outcome) /\ UNCHANGED nonCipherVars

ChmodStep ==
    \E p \in KeyPaths, readable \in BOOLEAN :
        Chmod(p, readable) /\ UNCHANGED nonCipherVars

EncryptFieldStep ==
    \E i \in DOMAIN ciphers, value \in Scalars :
        EncryptField(i, value) /\ UNCHANGED nonCipherVars

TamperStep ==
    \E how \in {"flip", "junk"} : Tamper(how) /\ UNCHANGED nonCipherVars

DecryptFieldStep ==
    \E j \in DOMAIN ciphers : DecryptField(j) /\ UNCHANGED nonCipherVars

NextCipher ==
    \/ NewEncryptor
    \/ ChmodStep
    \/ EncryptFieldStep
    \/ TamperStep
    \/ DecryptFieldStep

SpecCipher == Init /\ [][NextCipher]_vars

(***************************************************************************)
(* One call through the retry decorator: select_week against a calendar,   *)
(* or trip_exists against the store.                                       *)
(***************************************************************************)
CallSelectWeekStep ==
    \E t \in Targets, pg \in PageConfigs :
        CallSelectWeek(t, pg) /\ UNCHANGED nonCallVars

OpenPickerStep ==
    \E outcome \in {"found", "TimeoutError", "ValueError"} :
        OpenPicker(outcome) /\ UNCHANGED nonCallVars

FindLabelStep == FindLabel /\ UNCHANGED nonCallVars

NavigateStep == _navigate_to_month /\ UNCHANGED nonCallVars

SelectCellStep == SelectCell /\ UNCHANGED nonCallVars

CallTripExistsStep ==
    \E id \in TripIds : CallTripExists(id) /\ UNCHANGED nonCallVars

QueryTripStep ==
    \E outcome \in {"ok", "SQLAlchemyError", "ValueError"} :
        QueryTrip(outcome) /\ UNCHANGED nonCallVars

CallStoreOpStep ==
    \E op \in StoreOps : CallStoreOp(op) /\ UNCHANGED nonCallVars

StoreAttemptStep ==
    \E outcome \in {"ok", "SQLAlchemyError", "ValueError"} :
        StoreAttempt(outcome) /\ UNCHANGED nonCallVars

NextRetry ==
    \/ CallSelectWeekStep
    \/ OpenPickerStep
    \/ FindLabelStep
    \/ NavigateStep
    \/ SelectCellStep
    \/ CallTripExistsStep
    \/ QueryTripStep
    \/ CallStoreOpStep
    \/ StoreAttemptStep

SpecRetry == Init /\ [][NextRetry]_vars

(***************************************************************************)
(* Properties of the store (checked under Spec).                           *)
(***************************************************************************)

\* the rows of the Trip table that carry the trip_id
TripRows(id) == {i \in DOMAIN trips : trips[i].trip_id = id}

\* C1: in every reachable state of the store, whatever save_trip calls
\* (successful or failed) and other operations led to it, the Trip table
\* holds at most one row per trip_id.
C1_OneRowPerTripId ==
    \A i, j \in DOMAIN trips : trips[i].trip_id = trips[j].trip_id => i = j

\* C1 witness: both trip_ids are stored and the last call updated one of them
C1_Witness ==
    /\ Len(trips) = 2
    /\ last.op = "save_trip" /\ last.ret = "True" /\ last.existing # 0

\* C2: when save_trip(r') returns True for a trip_id that a successful
\* save_trip stored before with another earnings value, exactly one row
\* carries that trip_id afterwards, and its earnings are those of r'.
C2_LastWriteWins ==
    (last.op = "save_trip" /\ last.ret = "True"
        /\ last.existing # 0 /\ last.existing # last.data.earnings)
    => /\ Cardinality(TripRows(last.data.trip_id)) = 1
       /\ \A i \in TripRows(last.data.trip_id) :
             trips[i].earnings = last.data.earnings

\* C2 witness: a stored trip was saved again with changed earnings
C2_Witness ==
    /\ last.op = "save_trip" /\ last.ret = "True"
    /\ last.existing = 10 /\ last.data.earnings = 20
    /\ last.data.trip_id \in savedOk

\* C3: whenever trip_exists(id) returns, it returns True exactly when some
\* save_trip with that trip_id has returned True before; rows of the
\* canceled-trip table do not count.
C3_ExistsIffSaved ==
    (last.op = "trip_exists" /\ last.ret # "raised")
    => (last.ret = "True" <=> last.trip_id \in savedOk)

\* C3 witness: trip_exists returned False for an id that is only among the
\* canceled trips, while the other id is stored
C3_Witness ==
    /\ last.op = "trip_exists" /\ last.ret = "False"
    /\ \E i \in DOMAIN canceled : canceled[i].trip_id = last.trip_id
    /\ savedOk # {}

\* C4: a session that is completed or failed is never changed again by any
\* later call, and no session returns to started.
C4_TerminalIsFinal ==
    [][\A i \in DOMAIN sessions :
         /\ sessions[i].status # "started" => sessions'[i] = sessions[i]
         /\ sessions'[i].status = "started" => sessions[i].status = "started"]_vars

\* C5: complete_scraping_session on an existing session sets the status to
\* completed when called without an error message, to failed with exactly
\* that message when called with a non-empty one, and in both cases records
\* the four arguments.
C5_CompleteSetsFields ==
    (last.op = "complete_scraping_session" /\ last.found)
    => LET row == sessions[last.session_id] IN
       /\ last.error_message = None => row.status = "completed"
       /\ Truthy(last.error_message) =>
             row.status = "failed" /\ row.error_message = last.error_message
       /\ (last.error_message = None \/ Truthy(last.error_message)) =>
             /\ row.trips_scraped = last.args.trips_count
             /\ row.canceled_trips_scraped = last.args.canceled_count
             /\ row.last_trip_date = last.args.last_date
             /\ row.duration_seconds = last.args.duration

\* C5 witness: an existing session was completed with a message and counts
C5_Witness ==
    /\ last.op = "complete_scraping_session" /\ last.found
    /\ last.error_message = "boom" /\ last.args.duration = 5

\* C6: in every reachable state every stored session has an error message
\* exactly when its status is failed.
C6_ErrorIffFailed ==
    \A i \in DOMAIN sessions :
        sessions[i].error_message # None <=> sessions[i].status = "failed"

\* C7: a call of complete_scraping_session whose session id resolves to no
\* row raises nothing, creates no row and leaves the four tables unchanged.
C7_MissingIsNoOp ==
    [][(last'.op = "complete_scraping_session" /\ ~last'.found)
        => (last'.ret = None /\ UNCHANGED <<trips, canceled, sessions, metrics>>)]_vars

\* C7 witness: the call found no row while sessions and trips exist
C7_Witness ==
    /\ last.op = "complete_scraping_session" /\ ~last.found
    /\ sessions # <<>> /\ trips # <<>>

(***************************************************************************)
(* Properties of load_all_trips (checked under SpecScraper).               *)
(***************************************************************************)

\* the progress of the call: the iteration, then the step within it
PcIndex == CASE pc = "extract" -> 0 [] pc = "query" -> 1
             [] pc = "click" -> 2 [] pc = "delay" -> 3 [] pc = "done" -> 4

\* C8 as stated: at most 50 iterations and extractions, fewer than 50 clicks
C8_FewerThanFiftyClicks ==
    extractions <= max_attempts /\ clicks < max_attempts

\* C8, amended: load_all_trips ends after at most 50 loop iterations, hence
\* at most 50 extractions and at most 50 load-more clicks, whatever the page
\* does; every step moves the call forward within its iteration or to a
\* later iteration, or ends it.
C8_Terminates ==
    /\ [](extractions <= max_attempts /\ clicks <= max_attempts
            /\ attempt < max_attempts)
    /\ [][\/ attempt' > attempt
          \/ attempt' = attempt /\ PcIndex' > PcIndex]_vars

\* C8 witness: the call ended after fifty iterations, each with a click
C8_Witness ==
    pc = "done" /\ extractions = max_attempts /\ clicks = max_attempts

\* C9: across the iterations of one call the held result never shrinks (the
\* returned set being the largest one observed).
C9_HeldNeverShrinks == [][Len(held') >= Len(held)]_vars

\* whether the card has a resolvable identifier: the first non-empty of
\* data-trip-id, data-id, id
Resolvable(card) ==
    Truthy(card.data_trip_id) \/ Truthy(card.data_id) \/ Truthy(card.id)

FirstIdentifier(card) ==
    IF Truthy(card.data_trip_id) THEN card.data_trip_id
    ELSE IF Truthy(card.data_id) THEN card.data_id ELSE card.id

\* the first extraction over the cards gives one record per card, in page order
OneRecordPerCard(cards) ==
    Extract(cards, FALSE)
    => /\ Len(held') = Len(cards)
       /\ \A i \in DOMAIN cards : held'[i].trip_id = FirstIdentifier(cards[i])

\* with no load-more trigger the first iteration is the last one: the held
\* records are returned after a single extraction, no click, no exception
ReturnsAfterOnePass ==
    (extractions = 1 /\ QueryLoadMore("absent"))
    => (pc' = "done" /\ held' = held /\ extractions' = 1
        /\ clicks' = 0 /\ ~raised')

\* C10 as stated: every page of n cards with resolvable identifiers and no
\* load-more trigger gives n records in one iteration.
C10_AllResolvable ==
    [][/\ (attempt = 0 /\ pc = "extract") =>
            \A cards \in Pages :
                (\A i \in DOMAIN cards : Resolvable(cards[i]))
                => OneRecordPerCard(cards)
       /\ ReturnsAfterOnePass]_vars

\* C10, amended: when the page exposes n trip elements, each with a
\* resolvable identifier and none raising while it is parsed, and no
\* load-more trigger, load_all_trips returns exactly n records (one per
\* element) after a single iteration, with no click and without raising.
C10_AllParsed ==
    [][/\ (attempt = 0 /\ pc = "extract") =>
            \A cards \in Pages :
                (\A i \in DOMAIN cards :
                    Resolvable(cards[i]) /\ cards[i].raises = "never")
                => OneRecordPerCard(cards)
       /\ ReturnsAfterOnePass]_vars

\* C10 witness: the call returned MaxCards records after one extraction, one
\* of them identified by the last attribute of the chain
C10_Witness ==
    /\ pc = "done" /\ extractions = 1 /\ clicks = 0 /\ ~raised
    /\ Len(held) = MaxCards
    /\ \E i \in DOMAIN held : held[i].trip_id = "b"

(***************************************************************************)
(* Properties of save_trip, save_canceled_trip and the aggregate queries   *)
(* (checked under Spec).                                                   *)
(***************************************************************************)

\* the stored row for d.trip_id carries the fields of d
Committed(rows, d) ==
    \E i \in DOMAIN rows :
        /\ rows[i].trip_id = d.trip_id
        /\ rows[i].date = d.date
        /\ rows[i].earnings = d.earnings
        /\ rows[i].is_canceled = d.is_canceled

\* C13: save_trip never lets an exception leave it: every call returns True
\* or False; it returns True only when the record is committed; a storage
\* exception during lookup, update, insert or commit gives False, and a call
\* that returns False leaves the Trip table exactly as it was.
C13_FalseLeavesTrips ==
    [][last'.op = "save_trip" =>
          /\ last'.ret \in {"True", "False"}
          /\ last'.ret = "True" => Committed(trips', last'.data)
          /\ last'.ret = "False" => trips' = trips]_vars

\* C13 witness: a save of a stored trip_id with other earnings failed, and
\* the row is still there
C13_Witness ==
    /\ last.op = "save_trip" /\ last.ret = "False"
    /\ last.existing # 0 /\ last.existing # last.data.earnings
    /\ \E i \in DOMAIN trips :
          trips[i].trip_id = last.data.trip_id /\ trips[i].earnings = last.existing

\* the Trip rows that are not canceled and dated within [start_date, end_date]
Matching(start_date, end_date) ==
    {i \in DOMAIN trips :
        /\ ~trips[i].is_canceled
        /\ start_date <= trips[i].date
        /\ trips[i].date <= end_date}

RECURSIVE EarningsOf(_)
EarningsOf(S) ==
    IF S = {} THEN 0
    ELSE LET i == CHOOSE j \in S : TRUE IN trips[i].earnings + EarningsOf(S \ {i})

\* C14: get_earnings_summary(start, end) returns the count, the sum of
\* earnings and the average of earnings over exactly the stored trips that
\* are not canceled and dated from start to end, both ends included; with no
\* such trip it returns 0, 0.0 and 0.0; canceled-trip records never count.
C14_SummaryOverPeriod ==
    last.op = "get_earnings_summary" =>
        LET M == Matching(last.start_date, last.end_date) IN
        /\ last.ret.total_trips = Cardinality(M)
        /\ last.ret.total_earnings = EarningsOf(M)
        /\ last.ret.average_earnings * Cardinality(M) = EarningsOf(M)
        /\ M = {} => last.ret.average_earnings = 0

\* C14 witness: a one-day period holding a counted trip and a canceled trip,
\* with a canceled-trip record stored as well
C14_Witness ==
    /\ last.op = "get_earnings_summary" /\ last.start_date = last.end_date
    /\ last.ret.total_trips = 1
    /\ \E i \in DOMAIN trips :
          trips[i].is_canceled /\ trips[i].date = last.end_date

\* C18: save_canceled_trip only inserts: a call that returns True appends
\* exactly one record, also when the trip_id is already in the log (k
\* successful calls with one trip_id leave k records); a call that meets a
\* storage exception returns False; no call of any operation changes or
\* removes an earlier canceled-trip record, and save_canceled_trip leaves
\* the Trip table alone.
C18_InsertOnly ==
    [][/\ last'.op = "save_canceled_trip" =>
            /\ last'.ret \in {"True", "False"}
            /\ last'.ret = "True" =>
                  /\ Len(canceled') = Len(canceled) + 1
                  /\ canceled'[Len(canceled')].trip_id = last'.data.trip_id
            /\ trips' = trips
       /\ Len(canceled') >= Len(canceled)
       /\ \A i \in DOMAIN canceled : canceled'[i] = canceled[i]]_vars

\* C18 witness: two successful calls with one trip_id left two records
C18_Witness ==
    /\ last.op = "save_canceled_trip" /\ last.ret = "True"
    /\ Len(canceled) = 2
    /\ canceled[1].trip_id = canceled[2].trip_id

\* the Trip rows that are not canceled
Counted == {i \in DOMAIN trips : ~trips[i].is_canceled}

\* C19: each call of update_database_metrics appends exactly one metrics
\* row and changes no earlier row, and the new row's total_trips,
\* total_earnings and avg_earnings_per_trip are all computed over the stored
\* non-canceled trips (with none of them, the earnings totals are 0.0).
C19_MetricsOverCounted ==
    [][/\ \A i \in DOMAIN metrics : i \in DOMAIN metrics' /\ metrics'[i] = metrics[i]
       /\ last'.op = "update_database_metrics" =>
            /\ Len(metrics') = Len(metrics) + 1
            /\ LET row == metrics'[Len(metrics')] IN
               /\ row.total_trips = Cardinality(Counted)
               /\ row.total_earnings = EarningsOf(Counted)
               /\ row.avg_earnings_per_trip * Cardinality(Counted) = EarningsOf(Counted)
               /\ Counted = {} => row.avg_earnings_per_trip = 0]_vars

(***************************************************************************)
(* Properties of the extraction (checked under SpecScraper).               *)
(***************************************************************************)

\* the cards that give a record: identifier resolved, nothing raised
Parsable(card) == Resolvable(card) /\ card.raises = "never"

\* C20: one malformed element never aborts the batch: for any list of page
\* elements the extraction returns one record for each element whose
\* identifier resolves (the first non-empty of data-trip-id, data-id, id) and
\* whose parse succeeds, in page order, and skips the others; every returned
\* record has a non-empty trip_id; the extraction does not raise.
C20_SkipsMalformed ==
    /\ [](~raised /\ \A i \in DOMAIN held : Truthy(held[i].trip_id))
    /\ [][(attempt = 0 /\ pc = "extract") =>
            /\ \A cards \in Pages :
                Extract(cards, FALSE) =>
                    LET kept == SelectSeq(cards, Parsable) IN
                    /\ Len(held') = Len(kept)
                    /\ \A i \in DOMAIN kept :
                          held'[i].trip_id = FirstIdentifier(kept[i])
            /\ Extract(<<>>, TRUE) => held' = <<>>]_vars

\* C20 witness: the first extraction returned a single record, identified
\* by the last attribute of the chain
C20_Witness ==
    /\ extractions = 1 /\ pc = "query"
    /\ Len(held) = 1 /\ held[1].trip_id = "b"

(***************************************************************************)
(* Properties of the encryptor (checked under SpecCipher).                 *)
(***************************************************************************)

\* the scalars json writes and reads back as themselves
Representable(value) == value.type \in {"str", "int"}

\* C15: with one key, decrypt_field(encrypt_field(x)) = x for every
\* representable scalar x, the empty string and non-ASCII strings included;
\* decrypting with another key, or decrypting a ciphertext that was
\* modified, ends with an error and never returns a value.
C15_RoundTripOrError ==
    box.op = "decrypt_field" =>
        IF box.modified \/ box.by # box.key
        THEN box.ret.kind = "raised"
        ELSE Representable(box.value) => box.ret = Value(box.value)

\* C16: across any sequence of DatabaseEncryptor initialisations on a key
\* path, a key is generated and written only when no key file exists there;
\* the content of an existing key file is never overwritten, also when
\* loading it fails (that initialisation ends with an error, gives no
\* instance and leaves the file as it is); so a value encrypted by one
\* instance decrypts under every later instance of the same path.
C16_KeyWrittenOnce ==
    /\ [][/\ \A p \in KeyPaths :
                keyFiles[p] # NoFile =>
                    /\ keyFiles'[p] # NoFile
                    /\ keyFiles'[p][1].content = keyFiles[p][1].content
          /\ generated' # generated =>
                \E p \in KeyPaths :
                    /\ keyFiles[p] = NoFile
                    /\ \A q \in KeyPaths \ {p} : keyFiles'[q] = keyFiles[q]
          /\ initResult' = "raised" => ciphers' = ciphers]_vars
    /\ [](\A i, j \in DOMAIN ciphers :
            (i <= j /\ ciphers[i].key_path = ciphers[j].key_path) =>
                \A x \in Scalars :
                    Representable(x) =>
                        decrypt_field(ciphers[j].key, encrypt_field(ciphers[i].key, x))
                            = Value(x))

\* C16 witness: two instances share a key path, and the latest
\* initialisation there failed on the unreadable file, which still holds
\* the key of the first instance
C16_Witness ==
    /\ Len(ciphers) = 2 /\ ciphers[1].key_path = ciphers[2].key_path
    /\ initResult = "raised"
    /\ keyFiles[ciphers[1].key_path] # NoFile
    /\ ~keyFiles[ciphers[1].key_path][1].readable
    /\ keyFiles[ciphers[1].key_path][1].content = ciphers[1].key

(***************************************************************************)
(* Properties of select_week and of the retry decorator (checked under     *)
(* SpecRetry).                                                             *)
(***************************************************************************)

\* previous/next clicks between two months
Clicks(from, to) == IF to >= from THEN to - from ELSE from - to

\* the page has the month label, both navigation buttons and the day cell
AllPresent == page.label /\ page.prev /\ page.next /\ page.cell

\* how far an invocation of select_week has come
Progress ==
    CASE callPc = "label" -> 0
      [] callPc = "loop" -> 1 + navIter
      [] callPc = "cell" -> 2 + max_navigation + MaxBeyond
      [] OTHER -> 3 + max_navigation + MaxBeyond

\* C11: for every target date whose month is at most 12 previous/next
\* clicks from the month the calendar displays at first, in either
\* direction, with the date picker, the navigation buttons and the day cell
\* present, select_week returns True, and when it returns the displayed
\* month/year label is the target's; each click moves the displayed month
\* one step towards the target, never away from it.
C11_ReachesTarget ==
    /\ []((callOp = "select_week" /\ AllPresent
            /\ Clicks(StartMonth, target) <= max_navigation) =>
            /\ callPc = "returned" =>
                  /\ callRet = "True" /\ cellClicked
                  /\ inner_text = strftime(target)
            /\ callPc = "raised" => Len(errors) = tries)
    /\ [][navClicks' = navClicks + 1 =>
            Clicks(shown', target) = Clicks(shown, target) - 1]_vars

\* C11 witness: a target twelve months back, in the year before, was
\* reached with twelve clicks and selected
C11_Witness ==
    /\ callOp = "select_week" /\ callPc = "returned" /\ callRet = "True"
    /\ target = StartMonth - max_navigation /\ navClicks = max_navigation
    /\ inner_text.year = strftime(StartMonth).year - 1

\* the button that leads from the first displayed month to the target
Needed == IF target < StartMonth THEN "prev" ELSE "next"

\* the target cannot be selected: too far, or the button towards it or its
\* day cell is missing
Unreachable ==
    \/ Clicks(StartMonth, target) > max_navigation
    \/ target # StartMonth /\ ~page[Needed]
    \/ ~page.cell

\* C12: for a target date that cannot be reached (its month more than 12
\* clicks away, or a navigation button or the day cell missing),
\* select_week terminates and returns False instead of raising, after at
\* most 12 previous/next clicks in that invocation, and clicks no day cell
\* (an invocation that has opened the date picker moves on with every step
\* and never ends with an exception).
C12_UnreachableIsFalse ==
    /\ []((callOp = "select_week" /\ Unreachable) =>
            /\ callPc = "returned" => callRet = "False"
            /\ navClicks <= max_navigation
            /\ ~cellClicked)
    /\ [][(callOp = "select_week" /\ callPc \in {"label", "loop", "cell"}) =>
            Progress' > Progress /\ callPc' # "raised"]_vars

\* C12 witness: a target thirteen months ahead was given up after twelve
\* clicks, all elements being there
C12_Witness ==
    /\ callOp = "select_week" /\ callPc = "returned" /\ callRet = "False"
    /\ AllPresent /\ target = StartMonth + max_navigation + 1
    /\ navClicks = max_navigation /\ ~cellClicked

\* C17: when a retry-wrapped operation fails with an error that is not of
\* its transient kinds, the error propagates after that single invocation
\* and the operation is not invoked again; it is invoked a second or third
\* time only after a transient failure, and never more than 3 times per
\* call; for select_week (scraping error, timeout) and trip_exists (storage
\* error).
C17_RetryOnlyTransient ==
    /\ [](tries <= stop_after_attempt)
    /\ [][(callOp \in {"select_week", "trip_exists"} /\ Len(errors') > Len(errors)) =>
            LET error == errors'[Len(errors')] IN
            IF error \in TransientKinds(callOp)
            THEN tries' = tries + 1 \/ (tries = stop_after_attempt /\ callPc' = "raised")
            ELSE tries' = tries /\ callPc' = "raised" /\ callRet' = error]_vars

\* C21: every operation of the store (trip_exists, save_trip,
\* save_canceled_trip, get_last_scraped_date, get_earnings_summary,
\* update_database_metrics) is under the retry policy: an attempt that fails
\* with a transient storage error is followed by another attempt, up to 3
\* attempts per call, before a failure is reported to the caller.
C21_EveryOperationRetried ==
    [][(callOp \in StoreOps \cup {"trip_exists"}
            /\ Len(errors') > Len(errors)
            /\ errors'[Len(errors')] = "SQLAlchemyError") =>
          IF tries < stop_after_attempt
          THEN tries' = tries + 1 /\ callPc' \notin {"returned", "raised"}
          ELSE callPc' \in {"returned", "raised"}]_vars

(***************************************************************************)
(* Properties of the stagnation counter (checked under SpecScraper).       *)
(***************************************************************************)

\* C22: in load_all_trips the stagnation counter goes up by one in an
\* iteration, other than the first, whose extracted count equals the held
\* count, and is otherwise reset to zero with the new set adopted; the loop
\* stops and returns the held result in the first iteration in which there
\* is no load-more button or the counter has reached 3 (no iteration is
\* left with the counter at 3 or more); the button is never clicked in an
\* iteration where the counter is 3 or more.  The first conjunct follows the
\* extraction card by card through the first two iterations, the second
\* states its effect on the counter and the held set in every iteration.
C22_StagnationCounter ==
    [][/\ (pc = "extract" /\ attempt <= 1) =>
            \A cards \in Pages :
                Extract(cards, FALSE) =>
                    LET n == Len(SelectSeq(cards, Parsable)) IN
                    IF attempt > 0 /\ n = Len(held)
                    THEN consecutive_failures' = consecutive_failures + 1
                            /\ held' = held
                    ELSE consecutive_failures' = 0 /\ Len(held') = n
       /\ (pc = "extract" /\ pc' = "query") =>
            \/ /\ attempt > 0
               /\ consecutive_failures' = consecutive_failures + 1
               /\ held' = held
            \/ /\ consecutive_failures' = 0
               /\ attempt = 0 \/ Len(held') # Len(held)
       /\ (pc = "query" /\ consecutive_failures >= max_failures) =>
            (pc' = "done" \/ pc' = "query") /\ held' = held /\ clicks' = clicks
       /\ QueryLoadMore("absent") => pc' = "done" /\ held' = held
       /\ attempt' > attempt => consecutive_failures' < max_failures
       /\ clicks' > clicks => consecutive_failures < max_failures]_vars

\* C22 witness: the second iteration found the count unchanged, which took
\* the counter to 3, and the loop stopped there without another click
C22_Witness ==
    /\ pc = "done" /\ attempt = 1 /\ extractions = 2
    /\ consecutive_failures = max_failures /\ clicks = 1 /\ Len(held) = MaxCards

\* C23: in load_all_trips a failed load-more click does not end the loop
\* and raises the stagnation counter by exactly one in that iteration; after
\* a click that succeeds the counter stays as it is until the next
\* extraction; after either outcome the inter-request delay elapses (the
\* step after the click leaves the counter alone and leads to the next
\* iteration) before the next extraction.
C23_DelayAfterClick ==
    [][/\ \A outcome \in {"ok", "scroll", "click", "wait"} :
            ClickLoadMore(outcome) =>
                /\ pc' = "delay"
                /\ consecutive_failures' =
                      IF outcome = "ok" THEN consecutive_failures
                      ELSE consecutive_failures + 1
       /\ pc = "delay" =>
            /\ consecutive_failures' = consecutive_failures
            /\ pc' = "extract" \/ (pc' = "done" /\ attempt + 1 = max_attempts)]_vars

(***************************************************************************)
(* Frame conditions of the store operations (checked under Spec).          *)
(***************************************************************************)

\* nothing stored changes
StoreUnchanged ==
    trips' = trips /\ canceled' = canceled /\ sessions' = sessions
        /\ metrics' = metrics

\* C24: each persistence operation changes only its own target: save_trip
\* for trip_id X leaves every stored trip with another trip_id, every
\* canceled-trip record, every session and every metrics row unchanged;
\* start_scraping_session adds one session in status started, with an id
\* that no existing session has, and changes nothing else;
\* complete_scraping_session changes only the session with the given id;
\* trip_exists, get_last_scraped_date and get_earnings_summary change
\* nothing.
C24_OwnTargetOnly ==
    [][/\ last'.op = "save_trip" =>
            /\ canceled' = canceled /\ sessions' = sessions /\ metrics' = metrics
            /\ \A i \in DOMAIN trips :
                  trips[i].trip_id # last'.data.trip_id =>
                      i \in DOMAIN trips' /\ trips'[i] = trips[i]
            /\ \A i \in DOMAIN trips' :
                  i \notin DOMAIN trips => trips'[i].trip_id = last'.data.trip_id
       /\ last'.op = "start_scraping_session" =>
            /\ trips' = trips /\ canceled' = canceled /\ metrics' = metrics
            /\ Len(sessions') = Len(sessions) + 1
            /\ \A i \in DOMAIN sessions : sessions'[i] = sessions[i]
            /\ last'.ret \notin DOMAIN sessions
            /\ sessions'[last'.ret].status = "started"
       /\ last'.op = "complete_scraping_session" =>
            /\ trips' = trips /\ canceled' = canceled /\ metrics' = metrics
            /\ Len(sessions') = Len(sessions)
            /\ \A i \in DOMAIN sessions :
                  i # last'.session_id => sessions'[i] = sessions[i]
       /\ last'.op \in {"trip_exists", "get_last_scraped_date",
                        "get_earnings_summary"} => StoreUnchanged]_vars

\* C24 witness: save_trip changed the earnings of one stored trip while a
\* trip with the other trip_id is stored
C24_Witness ==
    /\ last.op = "save_trip" /\ last.ret = "True"
    /\ last.existing # 0 /\ last.existing # last.data.earnings
    /\ \E i \in DOMAIN trips : trips[i].trip_id # last.data.trip_id

====
